---- MODULE Spec2Model ----
(***************************************************************************)
(* A model of nui: the widget tree (AnchorContainer, ExpandableButton,     *)
(* VListContainer, Button), the Id-addressed message queue, the            *)
(* EventObserver registry and the frame loop of main.                      *)
(*                                                                         *)
(* f32 values are integers.  A length (a coordinate, a width, a height,    *)
(* the spacing, an offset) is a whole number of pixels.  Every other f32   *)
(* (a ratio, a scale, a progress, a time in seconds) is fixed-point: the   *)
(* f32 v is the integer floor(v * FP).  A product or a quotient always has *)
(* a fixed-point operand, so its result is of the kind of the other one    *)
(* (the quotient of two lengths is fixed-point); both round toward minus   *)
(* infinity.  A sum or a difference is rounded to the 24 significant bits  *)
(* of an f32.  NaN and the two infinities are three integers outside the   *)
(* range any finite value of the model takes.                              *)
(***************************************************************************)
EXTENDS Integers, Sequences, FiniteSets, TLC

VARIABLES
    env,           \* the scenario: the build, the window, frame times and pointer
                   \* positions that occur; or the widget a run of calls is made on
    pc,            \* where main is in its loop, or "panic"
    screen_size,   \* main's screen_size
    left_click,    \* main's left_click
    elem,          \* the widget tree
    queue,         \* the messages in ctx's channel
    batch,         \* what is left of the iterator ctx.rx.drain() returned
    observer,      \* the EventObserver
    receivers,     \* the receivers observe returned, in the order of the calls
    g              \* history: what happened in the current frame, or in the last call

vars == <<env, pc, screen_size, left_click, elem, queue, batch, observer, receivers, g>>

\* ------------------------------------------------------------------ f32
FP == 100

NaN == -(2^30)
PosInf == 2^30
NegInf == -(2^30) + 1

IsNaN(a) == a = NaN
IsFinite(a) == a \notin {NaN, PosInf, NegInf}

\* the f32 nearest to the integer n, ties to even: n itself up to 2^24, and
\* beyond that the multiple of Ulp nearest to it.  Ulp(m, u) is the gap between
\* the f32 values around m, found from u upward.
RECURSIVE Ulp(_, _)
Ulp(m, u) == IF m < 2^24 * u THEN u ELSE Ulp(m, 2 * u)
F32Rounded(n, m, u) ==
    LET q == m \div u
        r == m % u
        up == 2 * r > u \/ (2 * r = u /\ q % 2 = 1)
    IN (IF n < 0 THEN -1 ELSE 1) * (IF up THEN q + 1 ELSE q) * u
F32(n) ==
    IF -(2^24) <= n /\ n <= 2^24 THEN n
    ELSE F32Rounded(n, IF n < 0 THEN -n ELSE n, Ulp(IF n < 0 THEN -n ELSE n, 1))

\* a * b on f32
FMul(a, b) ==
    IF IsNaN(a) \/ IsNaN(b) THEN NaN
    ELSE IF IsFinite(a) /\ IsFinite(b) THEN (a * b) \div FP
    ELSE IF a = 0 \/ b = 0 THEN NaN
    ELSE IF (a > 0) = (b > 0) THEN PosInf ELSE NegInf

\* a / b on f32: x/0 is an infinity, 0/0 is NaN
FDiv(a, b) ==
    IF IsNaN(a) \/ IsNaN(b) THEN NaN
    ELSE IF IsFinite(a) /\ IsFinite(b) THEN
        IF b = 0 THEN (IF a = 0 THEN NaN ELSE IF a > 0 THEN PosInf ELSE NegInf)
        ELSE (a * FP) \div b
    ELSE IF ~IsFinite(a) /\ ~IsFinite(b) THEN NaN
    ELSE IF ~IsFinite(b) THEN 0
    ELSE IF (a > 0) = (b >= 0) THEN PosInf ELSE NegInf

\* a + b on f32
FAdd(a, b) ==
    IF IsNaN(a) \/ IsNaN(b) THEN NaN
    ELSE IF IsFinite(a) /\ IsFinite(b) THEN F32(a + b)
    ELSE IF ~IsFinite(a) /\ ~IsFinite(b) THEN (IF a = b THEN a ELSE NaN)
    ELSE IF IsFinite(a) THEN b ELSE a

FNeg(a) ==
    IF IsNaN(a) THEN NaN
    ELSE IF a = PosInf THEN NegInf
    ELSE IF a = NegInf THEN PosInf
    ELSE -a

FSub(a, b) == FAdd(a, FNeg(b))

\* comparisons: every comparison with NaN is false
FLe(a, b) == ~IsNaN(a) /\ ~IsNaN(b) /\ a <= b
FGe(a, b) == FLe(b, a)
FGt(a, b) == ~IsNaN(a) /\ ~IsNaN(b) /\ a > b

\* f32::clamp: NaN stays NaN
Clamp(a, lo, hi) ==
    IF IsNaN(a) THEN NaN ELSE IF a < lo THEN lo ELSE IF a > hi THEN hi ELSE a

\* f32::max: the other operand when one is NaN
FMax(a, b) == IF IsNaN(a) THEN b ELSE IF IsNaN(b) THEN a ELSE IF a >= b THEN a ELSE b

\* ------------------------------------------------------------- geometry
MkPosition(px, py) == [x |-> px, y |-> py]
MkSize(sw, sh) == [w |-> sw, h |-> sh]
MkBounds(bx, by, bw, bh) == [x |-> bx, y |-> by, size |-> MkSize(bw, bh)]
ZeroBounds == MkBounds(0, 0, 0, 0)

\* Contains with the far edges left out
ContainsHalfOpen(b, p) ==
    /\ FGe(p.x, b.x)
    /\ FGe(p.y, b.y)
    /\ FGt(FAdd(b.x, b.size.w), p.x)
    /\ FGt(FAdd(b.y, b.size.h), p.y)

\* Bounds::contains
Contains(b, p) ==
    /\ FGe(p.x, b.x)
    /\ FGe(p.y, b.y)
    /\ FLe(p.x, FAdd(b.x, b.size.w))
    /\ FLe(p.y, FAdd(b.y, b.size.h))

\* Anchor::get_point
GetPoint(anchor, size) ==
    [x |-> CASE anchor.x = "Left" -> 0
             [] anchor.x = "Middle" -> FAdd(0, FDiv(size.w, 2 * FP))
             [] anchor.x = "Right" -> FAdd(0, size.w),
     y |-> CASE anchor.y = "Top" -> 0
             [] anchor.y = "Middle" -> FAdd(0, FDiv(size.h, 2 * FP))
             [] anchor.y = "Bottom" -> FAdd(0, size.h)]

\* ApplyTo moving the bounds forward by the anchor point
ApplyToForward(anchor, bounds) ==
    LET position == GetPoint(anchor, bounds.size)
    IN [x |-> FAdd(bounds.x, position.x),
        y |-> FAdd(bounds.y, position.y),
        size |-> bounds.size]

\* Anchor::apply_to
ApplyTo(anchor, bounds) ==
    LET position == GetPoint(anchor, bounds.size)
    IN [x |-> FSub(bounds.x, position.x),
        y |-> FSub(bounds.y, position.y),
        size |-> bounds.size]

\* ------------------------------------------------------------- messages
HoverStart == <<"Button", "Hover", "Start">>
HoverEnd == <<"Button", "Hover", "End">>
Click == <<"Button", "Click">>
Expand == <<"ExpandableButton", "Expand">>
Fold == <<"ExpandableButton", "Fold">>
Null == <<"Null">>
MessageData == {HoverStart, HoverEnd, Click, Expand, Fold, Null}

Message(t, d) == [target |-> t, data |-> d]

\* --------------------------------------------------------------- Button
\* c1 of bounce, as C1 / C1Scale
C1 == 170158
C1Scale == 10^5

\* bounce(x) = 1 + c3 (x-1)^3 + c1 (x-1)^2 with c3 = c1 + 1, on the clamped x.
\* c1 (x-1)^2 is kept at the scale 100 FP^2 so that no product leaves 32 bits.
bounce(x) ==
    IF IsNaN(x) THEN NaN
    ELSE LET xc == Clamp(x, 0, FP)
             d == xc - FP
             d2 == d * d
             c1d2 == (C1 * d2) \div (C1Scale \div 100)
             c3d2 == c1d2 + 100 * d2
         IN FP + (c3d2 * d + c1d2 * FP) \div (100 * FP * FP)

\* the 1.6 units per second of both animations
OnePointSix == (16 * FP) \div 10

\* lerp of Button::update
lerp(start, end, percent) == FAdd(start, FMul(percent, FSub(end, start)))

\* powi(2)
Square(a) == FMul(a, a)

\* Button::new.  text_dim is what measure_text gives for the button's text.
ButtonNew(props) ==
    [id |-> props.id,
     outer_bounds |-> ZeroBounds,
     inner_bounds |-> ZeroBounds,
     text_dim |-> props.text_dim,
     space |-> props.space,
     anchor |-> props.anchor,
     preserve_ratio |-> props.preserve_ratio,
     hover |-> FALSE,
     offset |-> 0,
     progress |-> 0,
     progress_inc |-> FALSE,
     hover_offset |-> 0]

\* the progress a Hover(End) restarts the reverse animation from
ReverseProgress(b) == FDiv(b.offset, b.hover_offset)

\* Button::handle_message
ButtonHandleMessage(b, m) ==
    LET prev_hover == b.hover
        hover == CASE m = <<"Hover", "Start">> -> TRUE
                   [] m = <<"Hover", "End">> -> FALSE
                   [] OTHER -> b.hover
    IN IF prev_hover # hover
       THEN IF hover
            THEN [b EXCEPT !.hover = hover, !.progress_inc = TRUE]
            ELSE [b EXCEPT !.hover = hover, !.progress_inc = FALSE,
                           !.progress = ReverseProgress(b)]
       ELSE b

\* ButtonHandle without the test of the target
ButtonHandleAnyTarget(b, msg) ==
    IF msg.data[1] = "Button"
    THEN ButtonHandleMessage(b, Tail(msg.data))
    ELSE b

\* Button's Element::handle
ButtonHandle(b, msg) ==
    IF msg.target = b.id /\ msg.data[1] = "Button"
    THEN ButtonHandleMessage(b, Tail(msg.data))
    ELSE b

\* ButtonAnimate with the direction of the step forgotten: progress always grows
ButtonAnimateOneWay(b, dt) ==
    IF (b.progress_inc /\ FLe(b.progress, FP)) \/ (~b.progress_inc /\ FGe(b.progress, 0))
    THEN LET step == FMul(OnePointSix, dt)
             progress == Clamp(FAdd(b.progress, step), 0, FP)
             target_offset == lerp(0, b.hover_offset,
                                   IF b.progress_inc THEN bounce(progress) ELSE Square(progress))
         IN [b EXCEPT !.progress = progress,
                      !.offset = FAdd(b.offset, FDiv(FSub(target_offset, b.offset), 2 * FP))]
    ELSE b

\* the animation step of Button::update: progress, then offset
ButtonAnimate(b, dt) ==
    IF (b.progress_inc /\ FLe(b.progress, FP)) \/ (~b.progress_inc /\ FGe(b.progress, 0))
    THEN LET step == FMul(OnePointSix, IF b.progress_inc THEN dt ELSE FMul(2 * FP, FNeg(dt)))
             progress == Clamp(FAdd(b.progress, step), 0, FP)
             target_offset == lerp(0, b.hover_offset,
                                   IF b.progress_inc THEN bounce(progress) ELSE Square(progress))
         IN [b EXCEPT !.progress = progress,
                      !.offset = FAdd(b.offset, FDiv(FSub(target_offset, b.offset), 2 * FP))]
    ELSE b

\* ButtonEmit taking a button that is held down for a click as well
ButtonEmitHeld(b, inside, key) ==
    IF inside
    THEN IF key \in {"Pressed", "Held"} THEN <<Message(b.id, Click)>>
         ELSE IF ~b.hover THEN <<Message(b.id, HoverStart)>>
         ELSE <<>>
    ELSE IF b.hover THEN <<Message(b.id, HoverEnd)>>
    ELSE <<>>

\* ButtonEmit sending Hover(Start) in every frame the pointer is inside
ButtonEmitHovering(b, inside, key) ==
    IF inside
    THEN IF key = "Pressed" THEN <<Message(b.id, Click)>>
         ELSE <<Message(b.id, HoverStart)>>
    ELSE IF b.hover THEN <<Message(b.id, HoverEnd)>>
    ELSE <<>>

\* the messages Button::update sends, given whether the pointer is inside
ButtonEmit(b, inside, key) ==
    IF inside
    THEN IF key = "Pressed" THEN <<Message(b.id, Click)>>
         ELSE IF ~b.hover THEN <<Message(b.id, HoverStart)>>
         ELSE <<>>
    ELSE IF b.hover THEN <<Message(b.id, HoverEnd)>>
    ELSE <<>>

\* Button::update after the animation step: inner_bounds follows offset
ButtonMove(a) ==
    LET offset == FSub(a.hover_offset, a.offset)
    IN [a EXCEPT !.inner_bounds.x = FAdd(a.outer_bounds.x, offset),
                 !.inner_bounds.size.w = FAdd(a.outer_bounds.size.w, offset)]

\* the end of Button::update on the button nb with its new inner_bounds: the
\* button and the messages sent, in order
ButtonSend(nb, state) ==
    [e |-> nb,
     out |-> ButtonEmit(nb, Contains(nb.inner_bounds, state.mouse_position), state.left_click),
     ok |-> TRUE]

\* Button's Element::update: the new button and the messages sent, in order
ButtonUpdate(b, state) == ButtonSend(ButtonMove(ButtonAnimate(b, state.dt)), state)

\* assert_f32_near!(a, b): equal at the model's resolution, and no NaN
F32Near(a, b) == IsFinite(a) /\ IsFinite(b) /\ a = b

\* ButtonPreserveRatio with a Width arm that returns, leaving the bounds as
\* they are
ButtonPreserveRatioWidthReturns(nb) ==
    CASE nb.preserve_ratio[1] = "Height" ->
              LET ratio == nb.preserve_ratio[2]
                  calculated_width == FMul(nb.inner_bounds.size.h, ratio)
                  max_width == nb.inner_bounds.size.w
                  h == IF FGt(calculated_width, max_width)
                       THEN FDiv(max_width, ratio) ELSE nb.inner_bounds.size.h
                  new_width == FMul(h, ratio)
              IN [e |-> [nb EXCEPT !.inner_bounds.size = [w |-> new_width, h |-> h]],
                  ok |-> F32Near(FDiv(new_width, h), ratio)]
         [] OTHER -> [e |-> nb, ok |-> TRUE]

\* the match on preserve_ratio that ends Button::set_bounds, on the button nb
\* with its new bounds; ok is FALSE where the code panics
ButtonPreserveRatio(nb) ==
    CASE nb.preserve_ratio[1] = "Height" ->
              LET ratio == nb.preserve_ratio[2]
                  calculated_width == FMul(nb.inner_bounds.size.h, ratio)
                  max_width == nb.inner_bounds.size.w
                  h == IF FGt(calculated_width, max_width)
                       THEN FDiv(max_width, ratio) ELSE nb.inner_bounds.size.h
                  new_width == FMul(h, ratio)
              IN [e |-> [nb EXCEPT !.inner_bounds.size = [w |-> new_width, h |-> h]],
                  ok |-> F32Near(FDiv(new_width, h), ratio)]
         [] nb.preserve_ratio[1] = "Width" -> [e |-> nb, ok |-> FALSE]
         [] OTHER -> [e |-> nb, ok |-> TRUE]

\* Button::set_bounds once the anchor is applied: outer_bounds, hover_offset,
\* inner_bounds, then the match on preserve_ratio
ButtonSetOuter(b, bounds) ==
    LET hover_offset == FDiv(bounds.size.w, 5 * FP)
    IN ButtonPreserveRatio(
           [b EXCEPT !.outer_bounds = bounds,
                     !.hover_offset = hover_offset,
                     !.inner_bounds =
                         [x |-> FAdd(bounds.x, hover_offset),
                          y |-> bounds.y,
                          size |-> [w |-> FSub(bounds.size.w, hover_offset),
                                    h |-> bounds.size.h]]])

\* ButtonSetBounds moving the button on from the hover_offset it had
ButtonSetBoundsFromLast(b, bounds0) ==
    ButtonSetOuter(b, ApplyTo(b.anchor, [bounds0 EXCEPT !.x = FAdd(@, b.hover_offset)]))

\* Button's Element::set_bounds
ButtonSetBounds(b, bounds0) == ButtonSetOuter(b, ApplyTo(b.anchor, bounds0))

\* Button's min_size, space, bounds
ButtonMinSize(b) == b.text_dim
ButtonSpace(b) == b.space
ButtonBounds(b) == b.inner_bounds

\* Button::draw: the rectangle handed to the renderer, with the button's id
ButtonDraw(b) == <<[id |-> b.id, rect |-> b.inner_bounds]>>

\* ------------------------------------------------------- VListContainer
\* AnchorContainer::min_size and AnchorContainer::space: todo!(), a panic
AnchorMinSize(a) == [ok |-> FALSE]
AnchorSpace(a) == [ok |-> FALSE]

\* whether a child of a VListContainer<E> is an AnchorContainer, not a Button
IsAnchorContainer(c) == "entries" \in DOMAIN c

\* child.min_size() and child.space() as VListContainer<E> calls them on a child
\* of either type: the value v, and ok FALSE where the call panics
ChildMinSize(c) ==
    IF IsAnchorContainer(c) THEN AnchorMinSize(c) ELSE [v |-> ButtonMinSize(c), ok |-> TRUE]
ChildSpace(c) ==
    IF IsAnchorContainer(c) THEN AnchorSpace(c) ELSE [v |-> ButtonSpace(c), ok |-> TRUE]

\* the sum, in f32, of f(i) over 1..n
RECURSIVE FSum(_, _)
FSum(f, n) == IF n = 0 THEN 0 ELSE FAdd(FSum(f, n - 1), f[n])

\* the fold of f32::max over f(i), from 0
RECURSIVE FMaxAll(_, _)
FMaxAll(f, n) == IF n = 0 THEN 0 ELSE FMax(FMaxAll(f, n - 1), f[n])

\* VListContainer::new
VListNew(props) ==
    [id |-> props.id,
     bounds |-> ZeroBounds,
     children |-> props.children,
     space |-> props.space,
     spacing |-> props.spacing]

\* the loop of VListContainer's handle over the children
RECURSIVE ButtonsHandle(_, _)
ButtonsHandle(children, msg) ==
    IF children = <<>> THEN <<>>
    ELSE <<ButtonHandle(Head(children), msg)>> \o ButtonsHandle(Tail(children), msg)

\* Element::handle of VListContainer
VListHandle(v, msg) == [v EXCEPT !.children = ButtonsHandle(v.children, msg)]

\* one turn of a loop over the children: the child's result h ahead of the
\* result t of the turns after it
ButtonsCons(h, t) == [es |-> <<h.e>> \o t.es, out |-> h.out \o t.out, ok |-> h.ok /\ t.ok]

\* the loop of VListContainer's update over the children
RECURSIVE ButtonsUpdate(_, _)
ButtonsUpdate(children, state) ==
    IF children = <<>> THEN [es |-> <<>>, out |-> <<>>, ok |-> TRUE]
    ELSE ButtonsCons(ButtonUpdate(Head(children), state), ButtonsUpdate(Tail(children), state))

\* the VListContainer with the children of r, the result of a loop over them
VListWith(v, r) == [e |-> [v EXCEPT !.children = r.es], out |-> r.out, ok |-> r.ok]

\* Element::update of VListContainer
VListUpdate(v, state) == VListWith(v, ButtonsUpdate(v.children, state))

\* the second loop of VListContainer::set_bounds over the children left, with y
\* the running offset: the children laid out, and whether no set_bounds panicked
RECURSIVE VListPlace(_, _, _, _, _, _, _)
RECURSIVE VListPlaceRest(_, _, _, _, _, _, _, _)

\* VListPlace dividing the free height for every child, Fill or not
VListPlaceDividing(children, spacing, bounds, width, free_height, fill_count, y) ==
    IF children = <<>> THEN [es |-> <<>>, out |-> <<>>, ok |-> TRUE]
    ELSE LET child == Head(children)
             min == ButtonMinSize(child)
             child_size == [w |-> IF ButtonSpace(child) = "Fill" THEN width ELSE min.w,
                            h |-> FDiv(free_height, fill_count * FP)]
         IN VListPlaceRest(ButtonSetBounds(child, [x |-> bounds.x, y |-> FAdd(bounds.y, y),
                                                   size |-> child_size]),
                           Tail(children), spacing, bounds, width, free_height, fill_count, y)

\* VListPlaceRest moving y on by the child's height alone
VListPlaceRestNoSpacing(r, children, spacing, bounds, width, free_height, fill_count, y) ==
    ButtonsCons([e |-> r.e, out |-> <<>>, ok |-> r.ok],
                VListPlace(children, spacing, bounds, width, free_height, fill_count,
                           FAdd(y, ButtonBounds(r.e).size.h)))

\* the second loop of VListContainer::set_bounds, from the child at the head on
VListPlace(children, spacing, bounds, width, free_height, fill_count, y) ==
    IF children = <<>> THEN [es |-> <<>>, out |-> <<>>, ok |-> TRUE]
    ELSE LET child == Head(children)
             min == ButtonMinSize(child)
             child_size == IF ButtonSpace(child) = "Fill"
                           THEN [w |-> width, h |-> FDiv(free_height, fill_count * FP)]
                           ELSE min
         IN VListPlaceRest(ButtonSetBounds(child, [x |-> bounds.x, y |-> FAdd(bounds.y, y),
                                                   size |-> child_size]),
                           Tail(children), spacing, bounds, width, free_height, fill_count, y)

\* the rest of that loop once set_bounds gave the child r.e: y moves on by the
\* child's height and the spacing
VListPlaceRest(r, children, spacing, bounds, width, free_height, fill_count, y) ==
    ButtonsCons([e |-> r.e, out |-> <<>>, ok |-> r.ok],
                VListPlace(children, spacing, bounds, width, free_height, fill_count,
                           FAdd(y, FAdd(ButtonBounds(r.e).size.h, spacing))))

\* the end of VListContainer::set_bounds: the children as the second loop left
\* them, and the container's own bounds
VListPlaced(v, own, placed) ==
    [e |-> [v EXCEPT !.children = placed.es, !.bounds = own], ok |-> placed.ok]

\* spacing * (children.len() - 1) as f32.  children.len() - 1 is a usize
\* subtraction: with no children it wraps to 2^64 - 1 where the build does not
\* check overflow, and the product is then beyond every finite value here.
TotalPadding(spacing, n) ==
    IF n >= 1 THEN FMul(spacing, (n - 1) * FP)
    ELSE IF spacing = 0 THEN 0
    ELSE IF FGt(spacing, 0) THEN PosInf
    ELSE IF FGt(0, spacing) THEN NegInf
    ELSE NaN

\* Element::set_bounds of VListContainer; ok is FALSE where the code panics: in
\* the first loop, at the min_size of a child that has none, and at
\* children.len() - 1 with no children where the build checks overflow.
VListSetBounds(v, bounds) ==
    LET n == Len(v.children)
        mins == [i \in 1..n |-> ButtonMinSize(v.children[i])]
        fill_count == Cardinality({i \in 1..n : ButtonSpace(v.children[i]) = "Fill"})
        child_min_size == FSum([i \in 1..n |->
                                   IF ButtonSpace(v.children[i]) = "Fill" THEN 0 ELSE mins[i].h], n)
        total_padding == TotalPadding(v.spacing, n)
        min_size == [w |-> FMaxAll([i \in 1..n |-> mins[i].w], n),
                     h |-> FAdd(FSum([i \in 1..n |-> mins[i].h], n), total_padding)]
        size == IF v.space = "Fill" THEN [w |-> bounds.size.w, h |-> bounds.size.h] ELSE min_size
        size_without_padding == [w |-> size.w, h |-> FSub(size.h, total_padding)]
        free_height == FSub(size_without_padding.h, child_min_size)
    IN IF \E i \in 1..n : ~ChildMinSize(v.children[i]).ok THEN [e |-> v, ok |-> FALSE]
       ELSE IF n = 0 /\ env.overflow_checks THEN [e |-> v, ok |-> FALSE]
       ELSE VListPlaced(v, [x |-> bounds.x, y |-> bounds.y, size |-> size],
                        VListPlace(v.children, v.spacing, bounds, size_without_padding.w,
                                   free_height, fill_count, 0))

\* min_size, space, bounds of VListContainer
VListMinSize(v) ==
    LET n == Len(v.children)
    IN [w |-> FMaxAll([i \in 1..n |-> ButtonMinSize(v.children[i]).w], n),
        h |-> FSum([i \in 1..n |-> ButtonMinSize(v.children[i]).h], n)]
VListSpace(v) == v.space
VListBounds(v) == v.bounds

\* the loop of VListContainer's draw over the children
RECURSIVE ButtonsDraw(_)
ButtonsDraw(children) ==
    IF children = <<>> THEN <<>> ELSE ButtonDraw(Head(children)) \o ButtonsDraw(Tail(children))

\* Element::draw of VListContainer
VListDraw(v) == ButtonsDraw(v.children)

\* ----------------------------------------------------- ExpandableButton
\* a != b on f32
FNe(a, b) == IsNaN(a) \/ IsNaN(b) \/ a # b

\* ExpandableButton::new
ExpNew(props) ==
    [id |-> props.id,
     main |-> ButtonNew(props.main),
     list |-> props.list,
     bounds |-> ZeroBounds,
     expanded |-> 0,
     expand_inc |-> FALSE]

\* ExpandedStep ramping toward 1 whatever expand_inc is
ExpandedStepOneWay(x, dt) ==
    Clamp(FAdd(x.expanded, FMul(OnePointSix, dt)), 0, FP)

\* ExpandedStep without the clamp
ExpandedStepUnclamped(x, dt) ==
    FAdd(x.expanded, FMul(OnePointSix, IF x.expand_inc THEN dt ELSE FNeg(dt)))

\* the first two statements of ExpandableButton::update
ExpandedStep(x, dt) ==
    Clamp(FAdd(x.expanded, FMul(OnePointSix, IF x.expand_inc THEN dt ELSE FNeg(dt))), 0, FP)

\* what ExpandableButton::update leaves: expanded, and the results l of
\* list.set_bounds, m of main.update and u of list.update
ExpUpdated(x, expanded, l, m, u) ==
    [e |-> [x EXCEPT !.expanded = expanded, !.main = m.e, !.list = u.e],
     out |-> m.out \o u.out,
     ok |-> l.ok /\ m.ok /\ u.ok]

\* ExpUpdateChildren without the test of expanded: the list is always updated
ExpUpdateChildrenAlways(x, expanded, l, state) ==
    ExpUpdated(x, expanded, l, ButtonUpdate(x.main, state), VListUpdate(l.e, state))

\* ExpandableButton::update from main.update on, l being the result of
\* list.set_bounds: the list is updated only when expanded is not 0
ExpUpdateChildren(x, expanded, l, state) ==
    ExpUpdated(x, expanded, l,
               ButtonUpdate(x.main, state),
               IF FNe(expanded, 0) THEN VListUpdate(l.e, state)
               ELSE [e |-> l.e, out |-> <<>>, ok |-> TRUE])

\* the bounds ExpandableButton::update passes to list.set_bounds
ExpListBounds(x, expanded) ==
    [x |-> x.bounds.x,
     y |-> FAdd(x.bounds.y, ButtonBounds(x.main).size.h),
     size |-> [w |-> x.bounds.size.w, h |-> FMul(x.bounds.size.h, expanded)]]

\* Element::update of ExpandableButton
ExpUpdate(x, state) ==
    LET expanded == ExpandedStep(x, state.dt)
    IN ExpUpdateChildren(x, expanded,
           VListSetBounds(x.list,
               [x |-> x.bounds.x,
                y |-> FAdd(x.bounds.y, ButtonBounds(x.main).size.h),
                size |-> [w |-> x.bounds.size.w, h |-> FMul(x.bounds.size.h, expanded)]]),
           state)

\* ExpToggle that asks for Expand whatever the direction is
ExpToggleExpand(x) == Message(x.id, Expand)

\* the message ExpandableButton::handle sends for a Click on main
ExpToggle(x) == Message(x.id, IF x.expand_inc THEN Fold ELSE Expand)

\* ExpandableButton's handle flipping expand_inc at the Click itself, with no
\* message of its own
ExpHandleDirect(x, msg) ==
    LET main == ButtonHandle(x.main, msg)
        list == IF FNe(x.expanded, 0) THEN VListHandle(x.list, msg) ELSE x.list
        nx == [x EXCEPT !.main = main, !.list = list]
    IN IF msg.target = x.main.id /\ msg.data = Click
       THEN [e |-> [nx EXCEPT !.expand_inc = ~x.expand_inc], out |-> <<>>, ok |-> TRUE]
       ELSE [e |-> nx, out |-> <<>>, ok |-> TRUE]

\* Element::handle of ExpandableButton; ok is FALSE at unreachable!()
ExpHandle(x, msg) ==
    LET out == IF msg.target = x.main.id /\ msg.data = Click THEN <<ExpToggle(x)>> ELSE <<>>
        main == ButtonHandle(x.main, msg)
        list == IF FNe(x.expanded, 0) THEN VListHandle(x.list, msg) ELSE x.list
        nx == [x EXCEPT !.main = main, !.list = list]
    IN IF msg.target = x.id
       THEN IF msg.data[1] = "ExpandableButton"
            THEN [e |-> [nx EXCEPT !.expand_inc = (msg.data = Expand)], out |-> out, ok |-> TRUE]
            ELSE [e |-> nx, out |-> out, ok |-> FALSE]
       ELSE [e |-> nx, out |-> out, ok |-> TRUE]

\* Element::set_bounds of ExpandableButton
ExpSetBounds(x, bounds) ==
    LET m == ButtonSetBounds(x.main, bounds)
    IN [e |-> [x EXCEPT !.main = m.e, !.bounds = bounds], out |-> <<>>, ok |-> m.ok]

\* whether draw reaches the list
ExpDrawsList(x) == FNe(x.expanded, 0)

\* Element::draw of ExpandableButton: what the renderer is handed, in order
ExpDraw(x) == ButtonDraw(x.main) \o (IF ExpDrawsList(x) THEN VListDraw(x.list) ELSE <<>>)

\* min_size and space of ExpandableButton
ExpMinSize(x) ==
    LET main_min_size == ButtonMinSize(x.main)
    IN IF FNe(x.expanded, 0)
       THEN [w |-> FAdd(main_min_size.w, VListMinSize(x.list).w),
             h |-> FAdd(main_min_size.h, VListMinSize(x.list).h)]
       ELSE main_min_size
ExpSpace(x) == "Minimize"

\* ------------------------------------------------------ AnchorContainer
\* AnchorContainer::new
AnchorNew(props) == [id |-> props.id, bounds |-> ZeroBounds, entries |-> props.entries]

\* one turn of a loop over the entries: the entry with its child's result h,
\* ahead of the result t of the turns after it
EntriesCons(entry, h, t) ==
    [es |-> <<[entry EXCEPT !.child = h.e]>> \o t.es, out |-> h.out \o t.out, ok |-> h.ok /\ t.ok]

\* the loop of AnchorContainer's handle over the entries
RECURSIVE EntriesHandle(_, _)
EntriesHandle(entries, msg) ==
    IF entries = <<>> THEN [es |-> <<>>, out |-> <<>>, ok |-> TRUE]
    ELSE EntriesCons(Head(entries), ExpHandle(Head(entries).child, msg),
                     EntriesHandle(Tail(entries), msg))

\* the AnchorContainer with the entries of r, the result of a loop over them
AnchorWith(a, r) == [e |-> [a EXCEPT !.entries = r.es], out |-> r.out, ok |-> r.ok]

\* Element::handle of AnchorContainer
AnchorHandle(a, msg) == AnchorWith(a, EntriesHandle(a.entries, msg))

\* the loop of AnchorContainer's update over the entries
RECURSIVE EntriesUpdate(_, _)
EntriesUpdate(entries, state) ==
    IF entries = <<>> THEN [es |-> <<>>, out |-> <<>>, ok |-> TRUE]
    ELSE EntriesCons(Head(entries), ExpUpdate(Head(entries).child, state),
                     EntriesUpdate(Tail(entries), state))

\* Element::update of AnchorContainer
AnchorUpdate(a, state) == AnchorWith(a, EntriesUpdate(a.entries, state))

\* AnchorEntryBounds placing the anchor point from the parent's origin
AnchorEntryBoundsInParent(entry, bounds) ==
    LET size == [w |-> FMul(bounds.size.w, entry.scale.x),
                 h |-> FMul(bounds.size.h, entry.scale.y)]
        position == GetPoint(entry.anchor, bounds.size)
    IN [x |-> FAdd(bounds.x, position.x), y |-> FAdd(bounds.y, position.y), size |-> size]

\* the bounds AnchorContainer::set_bounds passes to an entry's child
AnchorEntryBounds(entry, bounds) ==
    LET size == [w |-> FMul(bounds.size.w, entry.scale.x),
                 h |-> FMul(bounds.size.h, entry.scale.y)]
        position == GetPoint(entry.anchor, bounds.size)
    IN [x |-> position.x, y |-> position.y, size |-> size]

\* the loop of AnchorContainer::set_bounds over the entries
RECURSIVE EntriesSetBounds(_, _)
EntriesSetBounds(entries, bounds) ==
    IF entries = <<>> THEN [es |-> <<>>, out |-> <<>>, ok |-> TRUE]
    ELSE EntriesCons(Head(entries),
                     ExpSetBounds(Head(entries).child, AnchorEntryBounds(Head(entries), bounds)),
                     EntriesSetBounds(Tail(entries), bounds))

\* the AnchorContainer with its bounds and the entries of r
AnchorBounded(a, bounds, r) == [e |-> [a EXCEPT !.bounds = bounds, !.entries = r.es], ok |-> r.ok]

\* Element::set_bounds of AnchorContainer
AnchorSetBounds(a, bounds) == AnchorBounded(a, bounds, EntriesSetBounds(a.entries, bounds))

\* the loop of AnchorContainer's draw over the entries
RECURSIVE EntriesDraw(_)
EntriesDraw(entries) ==
    IF entries = <<>> THEN <<>> ELSE ExpDraw(Head(entries).child) \o EntriesDraw(Tail(entries))

\* Element::draw of AnchorContainer
AnchorDraw(a) == EntriesDraw(a.entries)

\* -------------------------------------------------------- EventObserver
\* EventObserver::new
ObserverNew == [targets |-> <<>>]

\* ObserverInsert keeping the sender a target already has
ObserverInsertFirstWins(o, target, rx) ==
    [o EXCEPT !.targets = [i \in (DOMAIN o.targets) \cup {target} |->
                              IF i \in DOMAIN o.targets THEN o.targets[i] ELSE rx]]

\* HashMap::insert of the sender of receiver rx under target
ObserverInsert(o, target, rx) ==
    [o EXCEPT !.targets = [i \in (DOMAIN o.targets) \cup {target} |->
                              IF i = target THEN rx ELSE o.targets[i]]]

\* ObserverRecipients without the comparison of the key and without the break
ObserverRecipientsAll(o, msg) == {o.targets[i] : i \in DOMAIN o.targets}

\* the receivers EventObserver::handle sends msg.data to: the loop stops at the
\* first entry whose key is msg.target, and a HashMap holds a key once
ObserverRecipients(o, msg) == {o.targets[i] : i \in {j \in DOMAIN o.targets : j = msg.target}}

\* a flume receiver: the Id it was returned for, what it holds, and the targets
\* of the messages whose payload it was sent (kept for the properties)
ReceiverNew(target) == [observed |-> target, inbox |-> <<>>, seen |-> {}]

\* EventObserver::handle on the receivers
ObserverHandle(o, rs, msg) ==
    [r \in 1..Len(rs) |->
        IF r \in ObserverRecipients(o, msg)
        THEN [rs[r] EXCEPT !.inbox = Append(@, msg.data), !.seen = @ \cup {msg.target}]
        ELSE rs[r]]

\* ----------------------------------------------------------- the program
\* the Ids main gets from next_id, in the order of the calls: first_hello_world,
\* the ExpandableButton, the main button's Default, the Default of the first
\* ButtonProps (dropped: its id is first_hello_world), the Defaults of the five
\* repeated ButtonProps, the Default of the list, the Default of the root
FirstId == 0
ExpId == 1
MainId == 2
DroppedId == 3
RepeatedId == 4
ListId == 9
RootId == 10

\* .take(5)
Repeated == 5

\* what measure_text gives for a button's text
TextDim == [w |-> 30, h |-> 5]

RightTop == [x |-> "Right", y |-> "Top"]

\* the ButtonProps of main: the list's buttons and the main button
ListButtonProps ==
    << [id |-> FirstId, text_dim |-> TextDim, space |-> "Fill", anchor |-> RightTop,
        preserve_ratio |-> <<"Height", 7 * FP>>] >>
    \o [i \in 1..Repeated |->
           [id |-> RepeatedId + (i - 1), text_dim |-> TextDim, space |-> "Fill",
            anchor |-> RightTop,
            preserve_ratio |-> <<"Height", IF (i - 1) % 2 = 0 THEN 7 * FP ELSE 4 * FP>>]]

\* MainButtonProps with the Id the ExpandableButton has
MainButtonPropsSharedId ==
    [id |-> ExpId, text_dim |-> TextDim, space |-> "Fill", anchor |-> RightTop,
     preserve_ratio |-> <<"Height", 7 * FP>>]

MainButtonProps ==
    [id |-> MainId, text_dim |-> TextDim, space |-> "Fill", anchor |-> RightTop,
     preserve_ratio |-> <<"Height", 7 * FP>>]

\* the tree main builds
Tree ==
    AnchorNew([id |-> RootId,
               entries |-> << [scale |-> [x |-> FP \div 2, y |-> FP],
                               anchor |-> RightTop,
                               child |-> ExpNew([id |-> ExpId,
                                                 main |-> MainButtonProps,
                                                 list |-> VListNew([id |-> ListId,
                                                     children |-> [i \in 1..Len(ListButtonProps) |->
                                                                      ButtonNew(ListButtonProps[i])],
                                                     space |-> "Fill",
                                                     spacing |-> 5])]) ] >>])

\* the inputs of a frame.  A pointer position is given for a window of
\* 100 x 70 pixels and scaled with the window: off every button, on the main button, on
\* the edge the main button shares with the first button of the list
PointerOut(k) == MkPosition(0, 0)
PointerOnMain(k) == MkPosition(80 * k, 3 * k)
PointerOnEdge(k) == MkPosition(80 * k, 5 * k)
Window(k) == <<100 * k, 70 * k>>

\* the runs of frames the model covers:
\*   a steady 20 frames per second on a window of 1000 x 700, the pointer moving on
\*   and off the main button, the mouse button never down;
\*   one-second frames on a window of 100 x 70, the pointer off the buttons, on
\*   the main button or on the shared edge, the mouse button used;
\*   uneven frame times on that window, the pointer resting on the shared edge,
\*   the mouse button used.
\* overflow_checks is whether the build checks integer overflow (it does in the
\* dev profile, not in the release profile).
Scenarios ==
    { [overflow_checks |-> TRUE, size |-> Window(10), dts |-> {5}, down |-> {FALSE},
       mouse |-> {PointerOut(10), PointerOnMain(10)}],
      [overflow_checks |-> FALSE, size |-> Window(1), dts |-> {100}, down |-> BOOLEAN,
       mouse |-> {PointerOut(1), PointerOnMain(1), PointerOnEdge(1)}],
      [overflow_checks |-> TRUE, size |-> Window(1), dts |-> {0, 50, 100}, down |-> BOOLEAN,
       mouse |-> {PointerOnEdge(1)}] }

TheExp == elem.entries[1].child
TheMain == TheExp.main
TheList == TheExp.list

\* NextKeyState with no Held: Pressed in every frame the button is down
NextKeyStateRepeat(k, down) ==
    IF down
    THEN "Pressed"
    ELSE IF k \in {"Released", "Unpressed"} THEN "Unpressed" ELSE "Released"

\* KeyState after a frame in which the button is down or up
NextKeyState(k, down) ==
    IF down
    THEN IF k \in {"Released", "Unpressed"} THEN "Pressed" ELSE "Held"
    ELSE IF k \in {"Released", "Unpressed"} THEN "Unpressed" ELSE "Released"

\* the Ids of the buttons of the tree
ButtonIds == {MainButtonProps.id} \cup {ListButtonProps[i].id : i \in 1..Len(ListButtonProps)}

\* a history of the last two of what happened, after x happened
LastTwo(s, x) == IF Len(s) < 2 THEN Append(s, x) ELSE <<s[2], x>>

\* hovers after the messages out were sent
RECURSIVE HoversAfter(_, _)
HoversAfter(h, out) ==
    IF out = <<>> THEN h
    ELSE HoversAfter(IF Head(out).data \in {HoverStart, HoverEnd}
                     THEN [h EXCEPT ![Head(out).target] = LastTwo(@, Head(out).data)]
                     ELSE h,
                     Tail(out))

\* how far the frames of a press are counted
MaxRun == 2

\* run after a frame in which the button is down or up
RunAfter(run, down) == IF ~down THEN 0 ELSE IF run < MaxRun THEN run + 1 ELSE run

\* clicks after the messages out were sent
RECURSIVE ClicksAfter(_, _)
ClicksAfter(c, out) ==
    IF out = <<>> THEN c
    ELSE ClicksAfter(IF Head(out).data = Click /\ Head(out).target \in DOMAIN c
                     THEN [c EXCEPT ![Head(out).target] = @ + 1]
                     ELSE c,
                     Tail(out))

\* the history of a frame, before its update:
\*   carried      what the channel held when the frame began
\*   sent_update  the messages update sent, in order
\*   sent_handle  the messages sent while the batch was handled, in order
\*   handled      the messages passed to elem.handle, in order
\*   observed     the messages passed to observer.handle, in order
\*   progress0, hover0   the main button's progress and hover when the frame began
\*   inside       whether update found the pointer inside the main button
\*   pressed      whether left_click was Pressed in update
\*   dt           the frame time update was given
\* and across frames:
\*   incs         expand_inc as it was before each of the last two Clicks on main
\*   hovers       for each button, the last two Hover messages its update sent
\*   run          the frames the mouse button has been down without a break, this
\*                one included, counted up to MaxRun
\*   clicks       for each button, the Clicks its update sent in that run of frames
GFrame(q, e, incs) ==
    [carried |-> q, sent_update |-> <<>>, sent_handle |-> <<>>,
     handled |-> <<>>, observed |-> <<>>,
     progress0 |-> e.entries[1].child.main.progress,
     hover0 |-> e.entries[1].child.main.hover,
     inside |-> FALSE, pressed |-> FALSE, dt |-> 0,
     incs |-> incs,
     hovers |-> [id \in ButtonIds |-> <<>>],
     run |-> 0,
     clicks |-> [id \in ButtonIds |-> 0]]

Init ==
    /\ env \in Scenarios
    /\ pc = "input"
    /\ screen_size = <<0, 0>>
    /\ left_click = "Released"
    /\ elem = Tree
    /\ queue = <<>>
    /\ batch = <<>>
    /\ observer = ObserverInsert(ObserverNew, FirstId, 1)
    /\ receivers = <<ReceiverNew(FirstId)>>
    /\ g = GFrame(<<>>, Tree, <<>>)

\* main, from the top of the loop to the end of elem.update: set_bounds when the
\* window's size changed, the KeyState of the left button, the AppState, update
Update ==
    /\ pc = "input"
    /\ \E size \in {env.size}, down \in env.down, mouse \in env.mouse, dt \in env.dts :
       \E lc \in {NextKeyState(left_click, down)} :
       \E b \in {IF size # screen_size
                 THEN AnchorSetBounds(elem, MkBounds(0, 0, size[1], size[2]))
                 ELSE [e |-> elem, ok |-> TRUE]} :
       \E r \in {AnchorUpdate(b.e, [mouse_position |-> mouse, left_click |-> lc, dt |-> dt])} :
            /\ screen_size' = size
            /\ left_click' = lc
            /\ elem' = IF b.ok THEN r.e ELSE b.e
            /\ queue' = IF b.ok THEN queue \o r.out ELSE queue
            /\ pc' = IF b.ok /\ r.ok THEN "drain" ELSE "panic"
            /\ g' = [g EXCEPT !.sent_update = IF b.ok THEN r.out ELSE <<>>,
                              !.inside = b.ok /\ Contains(r.e.entries[1].child.main.inner_bounds,
                                                          mouse),
                              !.pressed = (lc = "Pressed"),
                              !.dt = dt,
                              !.hovers = IF b.ok THEN HoversAfter(@, r.out) ELSE @,
                              !.run = RunAfter(@, down),
                              !.clicks = ClicksAfter(IF down THEN @ ELSE [id \in ButtonIds |-> 0],
                                                     IF b.ok THEN r.out ELSE <<>>)]
    /\ UNCHANGED <<env, batch, observer, receivers>>

\* a sequence back to front
RECURSIVE Reverse(_)
Reverse(q) == IF q = <<>> THEN <<>> ELSE Append(Reverse(Tail(q)), Head(q))

\* Drain handing the batch over newest first
DrainNewestFirst ==
    /\ pc = "drain"
    /\ batch' = Reverse(queue)
    /\ queue' = <<>>
    /\ pc' = IF queue = <<>> THEN "draw" ELSE "handle"
    /\ UNCHANGED <<env, screen_size, left_click, elem, observer, receivers, g>>

\* Drain taking one message a frame
DrainOne ==
    /\ pc = "drain"
    /\ batch' = IF queue = <<>> THEN <<>> ELSE <<Head(queue)>>
    /\ queue' = IF queue = <<>> THEN <<>> ELSE Tail(queue)
    /\ pc' = IF queue = <<>> THEN "draw" ELSE "handle"
    /\ UNCHANGED <<env, screen_size, left_click, elem, observer, receivers, g>>

\* main: ctx.rx.drain() takes what the channel holds now
Drain ==
    /\ pc = "drain"
    /\ batch' = queue
    /\ queue' = <<>>
    /\ pc' = IF queue = <<>> THEN "draw" ELSE "handle"
    /\ UNCHANGED <<env, screen_size, left_click, elem, observer, receivers, g>>

\* SendFromHandle for an iterator that keeps reading the channel
SendFromHandleIntoBatch(q, b, out) == [queue |-> q, batch |-> b \o out]

\* where the messages sent while the batch is handled go: into the channel, not
\* into the iterator drain() returned
SendFromHandle(q, b, out) == [queue |-> q \o out, batch |-> b]

\* main: elem.handle(&msg) for the next message of the batch
Handle ==
    /\ pc = "handle"
    /\ \E msg \in {Head(batch)} :
       \E r \in {AnchorHandle(elem, msg)} :
       \E qb \in {SendFromHandle(queue, batch, r.out)} :
          /\ elem' = r.e
          /\ queue' = qb.queue
          /\ batch' = qb.batch
          /\ pc' = IF r.ok THEN "observe" ELSE "panic"
          /\ g' = [g EXCEPT !.handled = Append(@, msg),
                            !.sent_handle = @ \o r.out,
                            !.incs = IF msg = Message(MainId, Click)
                                     THEN IF Len(@) < 2 THEN Append(@, TheExp.expand_inc)
                                          ELSE <<@[2], TheExp.expand_inc>>
                                     ELSE @]
    /\ UNCHANGED <<env, screen_size, left_click, observer, receivers>>

\* main: observer.handle(msg) for the message elem.handle just got
Observe ==
    /\ pc = "observe"
    /\ LET msg == Head(batch)
       IN /\ receivers' = ObserverHandle(observer, receivers, msg)
          /\ g' = [g EXCEPT !.observed = Append(@, msg)]
    /\ batch' = Tail(batch)
    /\ pc' = IF Tail(batch) = <<>> THEN "draw" ELSE "handle"
    /\ UNCHANGED <<env, screen_size, left_click, elem, queue, observer>>

\* main, from the loop over first_hello_world_observer.drain() to next_frame():
\* the receiver is emptied and the tree is drawn, which changes no widget
Draw ==
    /\ pc = "draw"
    /\ receivers' = [receivers EXCEPT ![1].inbox = <<>>]
    /\ pc' = "input"
    /\ g' = [GFrame(queue, elem, g.incs) EXCEPT !.hovers = g.hovers, !.run = g.run,
                                                !.clicks = g.clicks]
    /\ UNCHANGED <<env, screen_size, left_click, elem, queue, batch, observer>>

Next ==
    \/ Update
    \/ Drain
    \/ Handle
    \/ Observe
    \/ Draw

Spec == Init /\ [][Next]_vars

\* the frame loop never stops of its own: main is loop { .. next_frame().await },
\* so each step of a frame that can be taken is taken.  Update can be taken
\* exactly when pc is "input", which makes []<>(pc # "input") its weak fairness.
SpecLive ==
    /\ Spec
    /\ WF_vars(Drain) /\ WF_vars(Handle) /\ WF_vars(Observe) /\ WF_vars(Draw)
    /\ []<>(pc # "input")

\* ------------------------------------------ the EventObserver on its own
\* any sequence of observe and handle calls on a new EventObserver
MaxReceivers == 3
MaxInbox == 2
ObservedIds == {FirstId, MainId}
HandledMessages == [target : ObservedIds \cup {ExpId}, data : {Click, Null}]

InitObserver ==
    /\ env = [overflow_checks |-> TRUE, size |-> Window(1), dts |-> {100}, down |-> BOOLEAN,
              mouse |-> {PointerOut(1)}]
    /\ pc = "input"
    /\ screen_size = <<0, 0>>
    /\ left_click = "Released"
    /\ elem = Tree
    /\ queue = <<>>
    /\ batch = <<>>
    /\ observer = ObserverNew
    /\ receivers = <<>>
    /\ g = GFrame(<<>>, Tree, <<>>)

\* EventObserver::observe
ObserveCall ==
    /\ Len(receivers) < MaxReceivers
    /\ \E target \in ObservedIds :
         /\ observer' = ObserverInsert(observer, target, Len(receivers) + 1)
         /\ receivers' = Append(receivers, ReceiverNew(target))
    /\ UNCHANGED <<env, pc, screen_size, left_click, elem, queue, batch, g>>

\* EventObserver::handle
HandleCall ==
    /\ \A r \in 1..Len(receivers) : Len(receivers[r].inbox) < MaxInbox
    /\ \E msg \in HandledMessages : receivers' = ObserverHandle(observer, receivers, msg)
    /\ UNCHANGED <<env, pc, screen_size, left_click, elem, queue, batch, observer, g>>

NextObserver ==
    \/ ObserveCall
    \/ HandleCall

SpecObserver == InitObserver /\ [][NextObserver]_vars

\* ------------------------------------------------- one widget on its own
\* any sequence of Element calls on one widget, new from its constructor
KeyStates == {"Pressed", "Held", "Released", "Unpressed"}
Anchors == [x : {"Left", "Middle", "Right"}, y : {"Top", "Middle", "Bottom"}]
LeftTop == [x |-> "Left", y |-> "Top"]
NoRatio == <<"None">>

\* ButtonProps
Props(id, space, anchor, ratio, text_dim) ==
    [id |-> id, text_dim |-> text_dim, space |-> space, anchor |-> anchor,
     preserve_ratio |-> ratio]

\* a VListContainer of the buttons of the props, in order
ListOf(props, space, spacing) ==
    VListNew([id |-> ListId,
              children |-> [i \in 1..Len(props) |-> ButtonNew(props[i])],
              space |-> space,
              spacing |-> spacing])

\* the buttons the calls are made on: no ratio to keep, a height to keep under
\* another anchor, a width to keep
PlainButton == ButtonNew(Props(MainId, "Fill", LeftTop, NoRatio, TextDim))
WideButton == ButtonNew(Props(MainId, "Fill", RightTop, <<"Height", 7 * FP>>, TextDim))
WidthButton == ButtonNew(Props(MainId, "Minimize", LeftTop, <<"Width", 7 * FP>>, TextDim))

\* the lists: without children; of Minimize children only; of a Minimize child
\* of min height 30 above a Fill child, no spacing; of two Fill children; of Fill
\* children that keep a ratio under a Bottom anchor; of an AnchorContainer
EmptyList == ListOf(<<>>, "Fill", 5)
EmptyMinimizeList == ListOf(<<>>, "Minimize", 5)
MinimizeList ==
    ListOf(<<Props(FirstId, "Minimize", LeftTop, NoRatio, TextDim),
             Props(RepeatedId, "Minimize", RightTop, NoRatio, MkSize(40, 30))>>, "Fill", 5)
MixedList ==
    ListOf(<<Props(FirstId, "Minimize", LeftTop, NoRatio, MkSize(30, 30)),
             Props(RepeatedId, "Fill", LeftTop, NoRatio, TextDim)>>, "Fill", 0)
FillList ==
    ListOf(<<Props(FirstId, "Fill", LeftTop, NoRatio, TextDim),
             Props(RepeatedId, "Fill", LeftTop, NoRatio, TextDim)>>, "Fill", 5)
RatioList ==
    ListOf(<<Props(FirstId, "Fill", [x |-> "Middle", y |-> "Bottom"], <<"Height", 4 * FP>>, TextDim),
             Props(RepeatedId, "Minimize", LeftTop, NoRatio, TextDim),
             Props(RepeatedId + 1, "Fill", RightTop, <<"Height", 7 * FP>>, TextDim)>>, "Fill", 5)
AnchorList ==
    VListNew([id |-> ListId,
              children |-> <<AnchorNew([id |-> RootId, entries |-> <<>>])>>,
              space |-> "Fill",
              spacing |-> 5])

\* an ExpandableButton of two buttons, the main one and one in the list, and an
\* AnchorContainer of two entries of different scale and anchor
TwoButtonExp ==
    ExpNew([id |-> ExpId,
            main |-> Props(MainId, "Fill", LeftTop, NoRatio, TextDim),
            list |-> ListOf(<<Props(FirstId, "Fill", LeftTop, NoRatio, TextDim)>>, "Fill", 5)])
OneButtonExp ==
    ExpNew([id |-> ExpId + 10,
            main |-> Props(MainId + 10, "Fill", RightTop, NoRatio, TextDim),
            list |-> ListOf(<<Props(FirstId + 10, "Fill", LeftTop, NoRatio, TextDim)>>, "Fill", 5)])
TwoEntries ==
    AnchorNew([id |-> RootId,
               entries |-> << [scale |-> [x |-> FP \div 2, y |-> FP],
                               anchor |-> RightTop,
                               child |-> ExpNew([id |-> ExpId,
                                                 main |-> Props(MainId, "Fill", LeftTop, NoRatio, TextDim),
                                                 list |-> ListOf(<<Props(RepeatedId, "Fill", LeftTop,
                                                                         NoRatio, TextDim)>>, "Fill", 5)])],
                              [scale |-> [x |-> FP, y |-> FP \div 4],
                               anchor |-> [x |-> "Middle", y |-> "Bottom"],
                               child |-> OneButtonExp] >>])

Widgets ==
    [kind : {"Button"}, widget : {PlainButton, WideButton, WidthButton}]
    \cup [kind : {"VListContainer"},
          widget : {EmptyList, EmptyMinimizeList, MinimizeList, MixedList, FillList,
                    RatioList, AnchorList}]
    \cup [kind : {"ExpandableButton"}, widget : {TwoButtonExp}]
    \cup [kind : {"AnchorContainer"}, widget : {TwoEntries}]

\* the arguments of the calls
CallBounds == {MkBounds(0, 0, 10, 100), MkBounds(10, 20, 10, 205)}
CallStates ==
    [mouse_position : {MkPosition(5, 50), MkPosition(15, 50)},
     left_click : KeyStates,
     dt : {100}]
CallMessages ==
    [target : {MainId, FirstId}, data : {Click, HoverStart, HoverEnd}]
    \cup [target : {ExpId}, data : {Expand, Click}]
ContainsBounds == {MkBounds(10, 15, 10, 5), MkBounds(480, 0, 320, 600)}
ContainsPositions == [x : {9, 10, 12, 20, 21, 782, NaN}, y : {14, 15, 18, 20, 21, 598}]
ApplyToBounds == {MkBounds(100, 100, 20, 10), MkBounds(3, 7, 5, 9), MkBounds(1, 1, 20000000, 20000000)}

\* whether the children of a list are Buttons: the loops of update, handle and
\* draw over the children are those over Buttons
OfButtons(kind, e) ==
    kind = "VListContainer" => \A i \in 1..Len(e.children) : ~IsAnchorContainer(e.children[i])

\* the Element methods of the widget e of the kind: the widget after the call
\* as e, the messages sent as out, and ok FALSE where the call panics
ElementSetBounds(kind, e, bounds) ==
    CASE kind = "Button" -> ButtonSetBounds(e, bounds)
      [] kind = "VListContainer" -> VListSetBounds(e, bounds)
      [] kind = "ExpandableButton" -> ExpSetBounds(e, bounds)
      [] kind = "AnchorContainer" -> AnchorSetBounds(e, bounds)
ElementUpdate(kind, e, state) ==
    CASE kind = "Button" -> ButtonUpdate(e, state)
      [] kind = "VListContainer" -> VListUpdate(e, state)
      [] kind = "ExpandableButton" -> ExpUpdate(e, state)
      [] kind = "AnchorContainer" -> AnchorUpdate(e, state)
ElementHandle(kind, e, msg) ==
    CASE kind = "Button" -> [e |-> ButtonHandle(e, msg), out |-> <<>>, ok |-> TRUE]
      [] kind = "VListContainer" -> [e |-> VListHandle(e, msg), out |-> <<>>, ok |-> TRUE]
      [] kind = "ExpandableButton" -> ExpHandle(e, msg)
      [] kind = "AnchorContainer" -> AnchorHandle(e, msg)
ElementDraw(kind, e) ==
    CASE kind = "Button" -> ButtonDraw(e)
      [] kind = "VListContainer" -> VListDraw(e)
      [] kind = "ExpandableButton" -> ExpDraw(e)
      [] kind = "AnchorContainer" -> AnchorDraw(e)
ElementMinSize(kind, e) ==
    CASE kind = "Button" -> [v |-> ButtonMinSize(e), ok |-> TRUE]
      [] kind = "VListContainer" ->
             IF \E i \in 1..Len(e.children) : ~ChildMinSize(e.children[i]).ok
             THEN [ok |-> FALSE] ELSE [v |-> VListMinSize(e), ok |-> TRUE]
      [] kind = "ExpandableButton" -> [v |-> ExpMinSize(e), ok |-> TRUE]
      [] kind = "AnchorContainer" -> AnchorMinSize(e)
ElementSpace(kind, e) ==
    CASE kind = "Button" -> [v |-> ButtonSpace(e), ok |-> TRUE]
      [] kind = "VListContainer" -> [v |-> VListSpace(e), ok |-> TRUE]
      [] kind = "ExpandableButton" -> [v |-> ExpSpace(e), ok |-> TRUE]
      [] kind = "AnchorContainer" -> AnchorSpace(e)

\* the history of the last call: its name as op, its argument as arg, the
\* widget before it, what it sent or returned as out, whether it returned, and
\* whether it is a set_bounds right after a set_bounds of the same bounds
GCall(op, arg, before, out, ok, repeat) ==
    [op |-> op, arg |-> arg, before |-> before, out |-> out, ok |-> ok, repeat |-> repeat]

InitCalls ==
    /\ env \in {[overflow_checks |-> c, kind |-> w.kind, widget |-> w.widget] :
                   c \in BOOLEAN, w \in Widgets}
    /\ pc = "call"
    /\ screen_size = <<0, 0>>
    /\ left_click = "Released"
    /\ elem = env.widget
    /\ queue = <<>>
    /\ batch = <<>>
    /\ observer = ObserverNew
    /\ receivers = <<>>
    /\ g = GCall("new", <<>>, env.widget, <<>>, TRUE, FALSE)

\* a call that leaves the widget r.e, or panics
Called(op, arg, r, out, repeat) ==
    /\ elem' = r.e
    /\ pc' = IF r.ok THEN "call" ELSE "panic"
    /\ g' = GCall(op, arg, elem, out, r.ok, repeat)
    /\ UNCHANGED <<env, screen_size, left_click, queue, batch, observer, receivers>>

\* a call of a method that takes &self
Asked(op, arg, out, ok) ==
    /\ pc' = IF ok THEN "call" ELSE "panic"
    /\ g' = GCall(op, arg, elem, out, ok, FALSE)
    /\ UNCHANGED <<env, screen_size, left_click, elem, queue, batch, observer, receivers>>

SetBoundsCall ==
    /\ pc = "call"
    /\ \E bounds \in CallBounds :
       \E r \in {ElementSetBounds(env.kind, elem, bounds)} :
          Called("set_bounds", bounds, r, <<>>,
                 g.op = "set_bounds" /\ g.arg = bounds)

UpdateCall ==
    /\ pc = "call"
    /\ OfButtons(env.kind, elem)
    /\ \E state \in CallStates :
       \E r \in {ElementUpdate(env.kind, elem, state)} :
          Called("update", state, r, r.out, FALSE)

HandleMessageCall ==
    /\ pc = "call"
    /\ OfButtons(env.kind, elem)
    /\ \E msg \in CallMessages :
       \E r \in {ElementHandle(env.kind, elem, msg)} :
          Called("handle", msg, r, r.out, FALSE)

DrawCall ==
    /\ pc = "call"
    /\ OfButtons(env.kind, elem)
    /\ Asked("draw", <<>>, ElementDraw(env.kind, elem), TRUE)

MinSizeCall ==
    /\ pc = "call"
    /\ \E r \in {ElementMinSize(env.kind, elem)} :
          Asked("min_size", <<>>, IF r.ok THEN r.v ELSE <<>>, r.ok)

SpaceCall ==
    /\ pc = "call"
    /\ \E r \in {ElementSpace(env.kind, elem)} :
          Asked("space", <<>>, IF r.ok THEN r.v ELSE <<>>, r.ok)

\* Anchor::apply_to, on a widget nothing was called on yet
ApplyToCall ==
    /\ pc = "call"
    /\ g.op \in {"new", "apply_to"}
    /\ \E anchor \in Anchors, bounds \in ApplyToBounds :
          Asked("apply_to", [anchor |-> anchor, bounds |-> bounds], ApplyTo(anchor, bounds), TRUE)

\* Bounds::contains, on a widget nothing was called on yet
ContainsCall ==
    /\ pc = "call"
    /\ g.op \in {"new", "contains"}
    /\ \E bounds \in ContainsBounds, position \in ContainsPositions :
          Asked("contains", [bounds |-> bounds, position |-> position],
                Contains(bounds, position), TRUE)

NextCalls ==
    \/ SetBoundsCall
    \/ UpdateCall
    \/ HandleMessageCall
    \/ DrawCall
    \/ MinSizeCall
    \/ SpaceCall
    \/ ApplyToCall
    \/ ContainsCall

SpecCalls == InitCalls /\ [][NextCalls]_vars

\* ------------------------------------------------------ next_id on its own
\* any interleaving of the callers of next_id on two threads.  The counter is an
\* AtomicU32; here it has IdBits bits, so that a run of MaxIds calls takes it
\* past its wrap.
IdBits == 2
MaxIds == 5
Threads == {"main", "spawned"}

\* FetchAdd with the increment lost
FetchAddLost(n) == n

\* the value ID.fetch_add(1, SeqCst) leaves in ID, n being the one it returns
FetchAdd(n) == (n + 1) % (2^IdBits)

\* g after a call of next_id by the thread t, from the caller named by
GIssued(t, by) ==
    [ID |-> FetchAdd(g.ID),
     issued |-> Append(g.issued, [thread |-> t, by |-> by, id |-> g.ID])]

InitIds ==
    /\ env = [overflow_checks |-> TRUE, size |-> Window(1), dts |-> {100}, down |-> BOOLEAN,
              mouse |-> {PointerOut(1)}]
    /\ pc = "ids"
    /\ screen_size = <<0, 0>>
    /\ left_click = "Released"
    /\ elem = Tree
    /\ queue = <<>>
    /\ batch = <<>>
    /\ observer = ObserverNew
    /\ receivers = <<>>
    /\ g = [ID |-> 0, issued |-> <<>>]

\* next_id() called directly, as main does for first_hello_world and for the
\* ExpandableButton
NextIdCall ==
    /\ Len(g.issued) < MaxIds
    /\ \E t \in Threads : g' = GIssued(t, "next_id")
    /\ UNCHANGED <<env, pc, screen_size, left_click, elem, queue, batch, observer, receivers>>

\* the Default of a property record, which takes its id from next_id()
DefaultCall ==
    /\ Len(g.issued) < MaxIds
    /\ \E t \in Threads : g' = GIssued(t, "default")
    /\ UNCHANGED <<env, pc, screen_size, left_click, elem, queue, batch, observer, receivers>>

\* ButtonProps::clone of a ButtonProps there is, which takes a new id
CloneCall ==
    /\ Len(g.issued) < MaxIds
    /\ \E i \in 1..Len(g.issued) : g.issued[i].by \in {"default", "clone"}
    /\ \E t \in Threads : g' = GIssued(t, "clone")
    /\ UNCHANGED <<env, pc, screen_size, left_click, elem, queue, batch, observer, receivers>>

NextIds ==
    \/ NextIdCall
    \/ DefaultCall
    \/ CloneCall

SpecIds == InitIds /\ [][NextIds]_vars

\* ------------------------------------------------------------ the claims
\* the elements of a sequence
Range(q) == {q[i] : i \in 1..Len(q)}

\* the buttons of the tree
Buttons == {TheMain} \cup Range(TheList.children)

\* C1: in every frame the messages the channel held at the frame's start and
\* those update sent are passed, in that order and once each, to elem.handle
\* and then to observer.handle, all of them before the frame is drawn.
C1_DispatchedOnceInOrder ==
    /\ pc = "handle" =>
         /\ g.observed = g.handled
         /\ g.handled \o batch = g.carried \o g.sent_update
    /\ pc = "observe" =>
         /\ g.handled = g.observed \o <<Head(batch)>>
         /\ g.handled \o Tail(batch) = g.carried \o g.sent_update
    /\ pc = "draw" =>
         /\ g.observed = g.handled
         /\ g.handled = g.carried \o g.sent_update

\* a frame about to be drawn whose update sent two messages
C1_Witness == pc = "draw" /\ Len(g.sent_update) >= 2 /\ g.observed = g.sent_update

\* C2: a message sent while the batch is handled stays in the channel for the
\* rest of the frame, and is handled in the next frame, ahead of what that
\* frame's update sends.
C2_SentInHandleWaits ==
    /\ pc \in {"handle", "observe", "draw"} => queue = g.sent_handle
    /\ pc = "input" => queue = g.carried
    /\ pc = "drain" => queue = g.carried \o g.sent_update
    /\ pc = "draw" => SubSeq(g.handled, 1, Len(g.carried)) = g.carried

\* a frame that handled, first, a message the frame before had sent in handle
C2_Witness == pc = "draw" /\ g.carried # <<>> /\ Head(g.handled) = Head(g.carried)

\* C3 as stated: the channel is empty when a frame begins.
C3_EmptyAtFrameStart == pc = "input" => queue = <<>>

\* C3, amended: when a frame begins the channel holds nothing but the Expand
\* and Fold messages the ExpandableButton sent while the frame before handled
\* its batch; no message sent by update is left.
C3_OnlyTogglesCarried ==
    pc = "input" => \A m \in Range(queue) : m \in {Message(ExpId, Expand), Message(ExpId, Fold)}

\* a frame that begins with a message in the channel
C3_Witness == pc = "input" /\ queue # <<>>

\* C4: a receiver is only ever sent the payload of messages whose target is the
\* Id it was returned for, and one handle call sends to at most one receiver.
C4_OnlyOwnTarget ==
    [][ /\ \A r \in 1..Len(receivers') : receivers'[r].seen \subseteq {receivers'[r].observed}
        /\ Cardinality({r \in 1..Len(receivers) :
                           receivers'[r].inbox # receivers[r].inbox}) <= 1 ]_vars

\* two receivers for two Ids, each holding one payload, each of its own Id
C4_Witness ==
    \E r1, r2 \in 1..Len(receivers) :
        /\ receivers[r1].observed # receivers[r2].observed
        /\ Len(receivers[r1].inbox) = 1 /\ receivers[r1].seen = {receivers[r1].observed}
        /\ Len(receivers[r2].inbox) = 1 /\ receivers[r2].seen = {receivers[r2].observed}

\* the Expand and Fold messages still to be handled
Toggles == {Message(ExpId, Expand), Message(ExpId, Fold)}
PendingToggles ==
    (Range(queue) \cup Range(IF pc = "observe" THEN Tail(batch) ELSE batch)) \cap Toggles

C6_ToggleByMessage ==
    [][ /\ (pc = "handle" /\ Head(batch) = Message(MainId, Click)) =>
              queue' = Append(queue, Message(ExpId, IF TheExp.expand_inc THEN Fold ELSE Expand))
        /\ (pc = "handle" /\ Head(batch) = Message(ExpId, Expand)) =>
              elem'.entries[1].child.expand_inc = TRUE
        /\ (pc = "handle" /\ Head(batch) = Message(ExpId, Fold)) =>
              elem'.entries[1].child.expand_inc = FALSE
        /\ elem'.entries[1].child.expand_inc # TheExp.expand_inc =>
              (pc = "handle" /\ Head(batch) \in Toggles) ]_vars

\* a Fold has just been handled: expand_inc was set by an Expand and is clear again
C6_Witness ==
    /\ pc = "observe" /\ Head(batch) = Message(ExpId, Fold)
    /\ ~TheExp.expand_inc /\ g.incs = <<FALSE, TRUE>>

\* C7: expanded lies in [0, 1].
C7_ExpandedInUnit == FGe(TheExp.expanded, 0) /\ FLe(TheExp.expanded, FP)

\* expanded on its way: strictly between 0 and 1
C7_Witness == FGt(TheExp.expanded, 0) /\ FGt(FP, TheExp.expanded) /\ pc = "drain"

\* C8: progress of every button lies in [0, 1].
C8_ProgressInUnit == \A b \in Buttons : FGe(b.progress, 0) /\ FLe(b.progress, FP)

\* C9 as stated: with one positive frame time, progress of the main button does
\* not fall over a frame whose update found the pointer inside, and does not
\* rise over a frame whose update found it outside.
C9_MonotoneByPointer ==
    (pc = "draw" /\ Cardinality(env.dts) = 1 /\ 0 \notin env.dts) =>
        /\ g.inside => FGe(TheMain.progress, g.progress0)
        /\ ~g.inside => FLe(TheMain.progress, g.progress0)

\* C9, amended: progress does not fall over a frame that began with the button
\* hovered and whose update found the pointer inside, and does not rise over a
\* frame that began with it not hovered and whose update found the pointer
\* outside.
C9_MonotoneOnceHandled ==
    pc = "draw" =>
        /\ (g.inside /\ g.hover0) => FGe(TheMain.progress, g.progress0)
        /\ (~g.inside /\ ~g.hover0) => FLe(TheMain.progress, g.progress0)

\* a frame, begun hovered with the pointer inside, over which progress rose
C9_Witness ==
    /\ pc = "draw" /\ Cardinality(env.dts) = 1
    /\ g.inside /\ g.hover0 /\ FGt(TheMain.progress, g.progress0)

\* C10: an update that finds the pointer inside the main button while the
\* button is not hovered sends Hover(Start) to the button's Id.
C10_HoverStartSent ==
    (pc = "drain" /\ g.inside /\ ~g.hover0) =>
        Message(MainId, HoverStart) \in Range(g.sent_update)


\* C11: an update of a Button sends a Click, addressed to the button's own Id,
\* exactly when the pointer is inside the inner bounds and left_click is
\* Pressed; Held, Released and Unpressed never give a Click.
C11_ClickIffInsideAndPressed ==
    (env.kind = "Button" /\ g.op = "update") =>
        /\ (Message(elem.id, Click) \in Range(g.out))
               <=> (Contains(elem.inner_bounds, g.arg.mouse_position)
                    /\ g.arg.left_click = "Pressed")
        /\ \A i \in 1..Len(g.out) : g.out[i].data = Click => g.out[i].target = elem.id

\* an update of a Button that sent a Click
C11_Witness ==
    /\ env.kind = "Button" /\ g.op = "update"
    /\ Message(elem.id, Click) \in Range(g.out)

\* C12: handle leaves every field of a Button as it was unless the message
\* targets the button's Id, carries a Hover payload and changes the hover flag:
\* a Click, a message for another Id, a Hover(Start) on a hovered button and a
\* Hover(End) on a button that is not hovered change nothing.
C12_HandleNoOpUnlessHoverChanges ==
    (env.kind = "Button" /\ g.op = "handle") =>
        \/ /\ g.arg.target = g.before.id
           /\ \/ g.arg.data = HoverStart /\ ~g.before.hover
              \/ g.arg.data = HoverEnd /\ g.before.hover
        \/ elem = g.before

\* a Hover(Start) handled by the hovered button it targets
C12_Witness ==
    /\ env.kind = "Button" /\ g.op = "handle"
    /\ g.arg = Message(elem.id, HoverStart)
    /\ g.before.hover
    /\ elem = g.before

\* C13: an ExpandableButton passes update, handle and draw on to its list
\* exactly when expanded is not 0 at the time of the call (in update, after the
\* step of expanded); with expanded 0 the list gets none of them (update still
\* lays it out), and the main button gets all three in every case.
C13_ListOnlyWhenExpanded ==
    env.kind = "ExpandableButton" =>
        /\ (g.op = "update" /\ g.ok) =>
              \E m \in {ButtonUpdate(g.before.main, g.arg)} :
              \E l \in {VListSetBounds(g.before.list, ExpListBounds(g.before, elem.expanded)).e} :
              \E u \in {VListUpdate(l, g.arg)} :
                 /\ elem.main = m.e
                 /\ elem.list = IF elem.expanded # 0 THEN u.e ELSE l
                 /\ g.out = m.out \o (IF elem.expanded # 0 THEN u.out ELSE <<>>)
        /\ g.op = "handle" =>
              /\ elem.main = ButtonHandle(g.before.main, g.arg)
              /\ elem.list = IF g.before.expanded # 0 THEN VListHandle(g.before.list, g.arg)
                             ELSE g.before.list
        /\ g.op = "draw" =>
              {g.out[i].id : i \in 1..Len(g.out)}
                  = {elem.main.id}
                    \cup (IF elem.expanded # 0
                          THEN {elem.list.children[i].id : i \in 1..Len(elem.list.children)}
                          ELSE {})

\* an update with expanded 0 that would have changed the list, had it been
\* passed on
C13_Witness ==
    /\ env.kind = "ExpandableButton" /\ g.op = "update" /\ g.ok
    /\ elem.expanded = 0
    /\ VListUpdate(elem.list, g.arg).e # elem.list

\* C14: set_bounds on a VListContainer without children returns: the padding
\* spacing * (count - 1) does not underflow the unsigned count, and the
\* container's bounds are set.
C14_EmptyListLaidOut ==
    (env.kind = "VListContainer" /\ g.op = "set_bounds" /\ Len(g.before.children) = 0) =>
        /\ g.ok
        /\ FLe(TotalPadding(g.before.spacing, 0), 0)
        /\ VListBounds(elem).x = g.arg.x
        /\ VListBounds(elem).y = g.arg.y

\* C15: set_bounds on a VListContainer whose children are all Minimize does not
\* divide by the Fill count, which is zero: it returns, every child gets exactly
\* its min size, and no bound of a child is an infinity or NaN.
C15_MinimizeChildrenGetMinSize ==
    (/\ env.kind = "VListContainer" /\ g.op = "set_bounds"
     /\ Len(g.before.children) >= 1
     /\ \A i \in 1..Len(g.before.children) :
           /\ ~IsAnchorContainer(g.before.children[i])
           /\ ButtonSpace(g.before.children[i]) = "Minimize") =>
        /\ g.ok
        /\ \A i \in 1..Len(elem.children) :
              /\ elem.children[i].outer_bounds.size = ButtonMinSize(elem.children[i])
              /\ IsFinite(elem.children[i].outer_bounds.x)
              /\ IsFinite(elem.children[i].outer_bounds.y)

\* the list of two Minimize children, laid out
C15_Witness ==
    /\ env.kind = "VListContainer" /\ g.op = "set_bounds" /\ g.ok
    /\ Len(elem.children) = 2
    /\ \A i \in 1..2 : /\ ~IsAnchorContainer(elem.children[i])
                       /\ ButtonSpace(elem.children[i]) = "Minimize"
                       /\ elem.children[i].outer_bounds.size = ButtonMinSize(elem.children[i])

\* the sum of the min heights of the Minimize children among the first n
RECURSIVE MinimizeHeights(_, _)
MinimizeHeights(children, n) ==
    IF n = 0 THEN 0
    ELSE FAdd(MinimizeHeights(children, n - 1),
              IF ButtonSpace(children[n]) = "Fill" THEN 0 ELSE ButtonMinSize(children[n]).h)

\* the y child i is placed at: the first at y0, each other one below the one
\* before it by that one's resulting height and the spacing
RECURSIVE PlacedAt(_, _, _, _)
PlacedAt(children, i, y0, spacing) ==
    IF i = 1 THEN y0
    ELSE FAdd(PlacedAt(children, i - 1, y0, spacing),
              FAdd(ButtonBounds(children[i - 1]).size.h, spacing))

\* the height set_bounds of the Fill list v, given bounds, leaves a Fill child
FillHeight(v, bounds) ==
    LET n == Len(v.children)
        fill_count == Cardinality({i \in 1..n : ButtonSpace(v.children[i]) = "Fill"})
    IN FDiv(FSub(FSub(bounds.size.h, FMul(v.spacing, (n - 1) * FP)),
                 MinimizeHeights(v.children, n)),
            fill_count * FP)

\* C16: set_bounds on a Fill VListContainer of at least one child passes every
\* Fill child the container's width and the height (container height -
\* spacing * (count - 1) - sum of the Minimize children's min heights) /
\* fill count, every Minimize child its min size, the first child the
\* container's y and each other child the y of the child before it plus that
\* child's resulting height plus the spacing.  A child puts its own anchor on
\* the bounds it is passed.
C16_FillListLayout ==
    (/\ env.kind = "VListContainer" /\ g.op = "set_bounds" /\ g.ok
     /\ VListSpace(elem) = "Fill"
     /\ Len(elem.children) >= 1) =>
        \A i \in 1..Len(elem.children) :
            elem.children[i].outer_bounds
                = ApplyTo(elem.children[i].anchor,
                          [x |-> g.arg.x,
                           y |-> PlacedAt(elem.children, i, g.arg.y, elem.spacing),
                           size |-> IF ButtonSpace(elem.children[i]) = "Fill"
                                    THEN [w |-> g.arg.size.w, h |-> FillHeight(elem, g.arg)]
                                    ELSE ButtonMinSize(elem.children[i])])

\* one Minimize child of min height 30 above one Fill child, no spacing, height
\* 100: the Fill child has height 70, 30 below the container's y
C16_Witness ==
    /\ env.widget = MixedList /\ g.op = "set_bounds" /\ g.ok
    /\ g.arg.size.h = 100
    /\ elem.children[2].outer_bounds.size.h = 70
    /\ elem.children[2].outer_bounds.y = g.arg.y + 30

\* C17: for a widget of any kind, a set_bounds right after a set_bounds of the
\* same bounds, with no other call in between, leaves the widget and every
\* descendant as the first call left them.
C17_SetBoundsIdempotent ==
    (g.op = "set_bounds" /\ g.repeat /\ g.ok) => elem = g.before

\* a second set_bounds of the same bounds on the AnchorContainer
C17_Witness ==
    /\ env.kind = "AnchorContainer"
    /\ g.op = "set_bounds" /\ g.repeat /\ g.ok
    /\ g.before.bounds = g.arg

\* C18: set_bounds(parent) of an AnchorContainer passes the child of each entry
\* the size (parent.w * scale.x, parent.h * scale.y) at the origin
\* anchor.get_point(parent.size): a function of parent and of that entry's
\* scale and anchor alone, whatever the other entries are and whatever was
\* called before.
C18_EntryBoundsFromParent ==
    (env.kind = "AnchorContainer" /\ g.op = "set_bounds" /\ g.ok) =>
        \A i \in 1..Len(elem.entries) :
            elem.entries[i].child.bounds
                = [x |-> GetPoint(elem.entries[i].anchor, g.arg.size).x,
                   y |-> GetPoint(elem.entries[i].anchor, g.arg.size).y,
                   size |-> [w |-> FMul(g.arg.size.w, elem.entries[i].scale.x),
                             h |-> FMul(g.arg.size.h, elem.entries[i].scale.y)]]

\* a set_bounds with a parent away from the origin, on a container that was laid
\* out otherwise before, whose two entries get different bounds
C18_Witness ==
    /\ env.kind = "AnchorContainer" /\ g.op = "set_bounds" /\ g.ok
    /\ g.arg.x # 0 /\ g.arg.y # 0
    /\ g.before.bounds \notin {ZeroBounds, g.arg}
    /\ elem.entries[1].child.bounds # elem.entries[2].child.bounds
    /\ elem.entries[1].child.bounds.x = g.arg.size.w

\* C19: the unimplemented paths panic and return nothing: min_size and space
\* of an AnchorContainer, set_bounds of a Button that is to keep a Width ratio;
\* and so set_bounds of a VListContainer with an AnchorContainer among its
\* children panics too, with no child laid out.
C19_UnimplementedPanics ==
    /\ (env.kind = "AnchorContainer" /\ g.op \in {"min_size", "space"}) =>
           ~g.ok /\ pc = "panic" /\ g.out = <<>>
    /\ (env.kind = "Button" /\ g.op = "set_bounds" /\ g.before.preserve_ratio[1] = "Width") =>
           ~g.ok /\ pc = "panic"
    /\ (/\ env.kind = "VListContainer" /\ g.op \in {"set_bounds", "min_size"}
        /\ \E i \in 1..Len(g.before.children) : IsAnchorContainer(g.before.children[i])) =>
           ~g.ok /\ pc = "panic" /\ elem = g.before

\* set_bounds on the list of an AnchorContainer has panicked
C19_Witness ==
    /\ env.widget = AnchorList
    /\ g.op = "set_bounds" /\ pc = "panic"

C21_ContainsEdgeInclusive ==
    g.op = "contains" =>
        LET b == g.arg.bounds
            p == g.arg.position
        IN /\ g.out <=> (/\ FLe(b.x, p.x) /\ FLe(p.x, FAdd(b.x, b.size.w))
                         /\ FLe(b.y, p.y) /\ FLe(p.y, FAdd(b.y, b.size.h)))
           /\ (p.x \in {b.x, b.x + b.size.w} /\ p.y \in {b.y, b.y + b.size.h}) => g.out
           /\ (IsFinite(p.x) /\ (p.x < b.x \/ p.x > b.x + b.size.w)) => ~g.out
           /\ (p.y < b.y \/ p.y > b.y + b.size.h) => ~g.out

\* the bounds of origin (10, 15) and size (10, 5) contain their far corner
\* (20, 20)
C21_Witness ==
    /\ g.op = "contains"
    /\ g.arg = [bounds |-> MkBounds(10, 15, 10, 5), position |-> MkPosition(20, 20)]
    /\ g.out

\* C22: as long as the counter has not wrapped, every call of next_id returns
\* an Id greater than every Id returned before it, whatever the callers (a
\* direct call, a Default, a clone) and the threads are: any two Ids are
\* distinct.
C22_IdsIncrease ==
    pc = "ids" =>
        \A j \in 1..Len(g.issued) :
            j <= 2^IdBits => \A i \in 1..(j - 1) : g.issued[i].id < g.issued[j].id

\* an Id a clone got on one thread after an Id a Default got on the other
C22_Witness ==
    /\ pc = "ids"
    /\ \E i, j \in 1..Len(g.issued) :
          /\ i < j
          /\ g.issued[i].by = "default" /\ g.issued[j].by = "clone"
          /\ g.issued[i].thread # g.issued[j].thread
          /\ g.issued[i].id < g.issued[j].id

\* C23: a second observe of the same Id replaces the registration: from then on
\* a handled message for that Id goes to the receiver the later call returned,
\* and the receiver an earlier call returned gets nothing more.
C23_LastObserveWins ==
    [][ \A r \in 1..Len(receivers) :
           receivers'[r].inbox # receivers[r].inbox =>
               ~\E later \in (r + 1)..Len(receivers) :
                   receivers[later].observed = receivers[r].observed ]_vars

\* two receivers of one Id: the first holds what was handled before the second
\* observe, the second what was handled after it
C23_Witness ==
    \E r1, r2 \in 1..Len(receivers) :
        /\ r1 < r2
        /\ receivers[r1].observed = receivers[r2].observed
        /\ Len(receivers[r1].inbox) = 1
        /\ Len(receivers[r2].inbox) = 2

\* C24: the Hover messages the update of one button of the frame loop sends
\* alternate, Start first: a Hover(Start) is sent only when the button's last
\* Hover was an End or it sent none yet, a Hover(End) only when its last Hover
\* was a Start.
C24_HoverAlternates ==
    [][ pc = "input" =>
          \A i \in 1..Len(g'.sent_update) :
              LET msg == g'.sent_update[i]
                  sent == g.hovers[msg.target]
              IN /\ msg.data = HoverStart => (sent = <<>> \/ sent[Len(sent)] = HoverEnd)
                 /\ msg.data = HoverEnd => (sent # <<>> /\ sent[Len(sent)] = HoverStart) ]_vars

\* the main button has sent Start, End, Start and a button of the list has sent
\* a Hover as well
C24_Witness ==
    /\ pc = "drain"
    /\ g.hovers[MainId] = <<HoverEnd, HoverStart>>
    /\ Message(MainId, HoverStart) \in Range(g.sent_update)
    /\ g.hovers[FirstId] # <<>>

\* C25: the Id of the ExpandableButton differing from the Id of every Button,
\* each message handle is given that is targeted at the ExpandableButton's own Id
\* carries an ExpandableButton payload, and handling it does not panic: the
\* unreachable!() of ExpandableButton::handle is not executed.
C25_OwnMessagesAreToggles ==
    [][ pc = "handle" =>
          /\ Head(batch).target = TheExp.id => Head(batch).data \in {Expand, Fold}
          /\ pc' # "panic" ]_vars

\* handle was given a Fold targeted at the ExpandableButton and then, in the same
\* frame, a message of a button
C25_Witness ==
    /\ pc = "observe"
    /\ TheExp.id \notin ButtonIds
    /\ Head(g.handled) = Message(TheExp.id, Fold)
    /\ Head(batch).target \in ButtonIds

\* C26: left_click is Pressed in the first frame of a run of frames in which the
\* mouse button is down and Held in the later frames of the run, and no button
\* sends more than one Click in such a run.
C26_OneClickPerPress ==
    /\ left_click = "Pressed" <=> g.run = 1
    /\ left_click = "Held" <=> g.run > 1
    /\ \A id \in ButtonIds : g.clicks[id] <= 1

\* the mouse button held for a second frame with the pointer inside the main
\* button, which sent its Click in the first
C26_Witness ==
    /\ pc = "drain"
    /\ g.run = MaxRun
    /\ left_click = "Held"
    /\ g.inside
    /\ g.clicks[MainId] = 1
    /\ Message(MainId, Click) \notin Range(g.sent_update)

\* whether the frame now running got a positive frame time
FrameTimePositive == pc # "input" => g.dt > 0

\* the parts of the list's buttons that update and handle change
ListAnimation(l) ==
    [i \in 1..Len(l.children) |->
        [hover |-> l.children[i].hover, progress |-> l.children[i].progress,
         progress_inc |-> l.children[i].progress_inc, offset |-> l.children[i].offset]]

\* the Ids of the list's buttons
ListIds == {TheList.children[i].id : i \in 1..Len(TheList.children)}

\* C27: in the frame loop, with positive frame times from some frame on,
\* expanded comes to 1 and stays there if expand_inc stays true, and
\* comes to 0 and stays there if expand_inc stays false; and while expanded is 0
\* the list's buttons get no update (none is animated, none sends a message), no
\* handle and no draw.
C27_RampCompletes ==
    /\ (<>[]FrameTimePositive /\ <>[]TheExp.expand_inc) => <>[](TheExp.expanded = FP)
    /\ (<>[]FrameTimePositive /\ <>[](~TheExp.expand_inc)) => <>[](TheExp.expanded = 0)
    /\ [][ /\ (pc = "input" /\ pc' = "drain" /\ TheExp'.expanded = 0) =>
                /\ ListAnimation(TheList') = ListAnimation(TheList)
                /\ \A i \in 1..Len(g'.sent_update) : g'.sent_update[i].target \notin ListIds
           /\ (pc = "handle" /\ TheExp.expanded = 0) =>
                ListAnimation(TheList') = ListAnimation(TheList)
           /\ (pc = "draw" /\ TheExp.expanded = 0) =>
                \A i \in 1..Len(AnchorDraw(elem)) : AnchorDraw(elem)[i].id \notin ListIds ]_vars

\* the list is folded, expand_inc is false and expanded came down to 0 by a frame
\* of half a second after earlier frames had brought it up; a button of the
\* list is left hovered
C27_Witness ==
    /\ pc = "drain"
    /\ g.dt = 50
    /\ ~TheExp.expand_inc
    /\ TheExp.expanded = 0
    /\ \E i \in 1..Len(TheList.children) : TheList.children[i].hover

====
